---- MODULE Spec2Model ----
(***************************************************************************)
(* build_id: a process-wide identifier of the running binary.              *)
(*                                                                         *)
(* A process is an invocation of a binary `exe`.  Its threads call get()   *)
(* (src/lib.rs:89); calculate() (src/lib.rs:128) is private to the crate,  *)
(* so besides the Lazy only the crate's tests call it: thread 1 stands for *)
(* the test code and may call calculate() directly as well.  calculate()   *)
(* is modelled step by step: from_header, from_exe (open, read loop),      *)
(* from_type_id, the two digest writes, with_variant, with_version,        *)
(* return.                                                                 *)
(*                                                                         *)
(* Spec is one process.  InvocationsSpec adds process exit: a process that *)
(* has obtained its build id ends and a binary is invoked anew; `remote`   *)
(* keeps the ended invocation's build id, as in the crate's example        *)
(* (local_build_id == remote_build_id).                                    *)
(*                                                                         *)
(* The 64-bit hasher (twox_hash::XxHash, an external crate) is modelled by *)
(* the byte stream it has absorbed; finish() is a deterministic mixing     *)
(* function of seed and stream with a 64-bit result (eight limbs).         *)
(***************************************************************************)
EXTENDS Integers, Sequences, FiniteSets, TLC

\* ---------------------------------------------------------------- bounds
NumThreads == 2
MaxLen == 2

Threads == 1..NumThreads
\* The threads that run the crate's tests (mod test): the harness gives
\* brute and get a thread each, and both call calculate() directly.
TestThreads == {1, 2}
\* The byte values an executable is made of here.
FileBytes == {0, 255}

RECURSIVE SeqsUpTo(_)
SeqsUpTo(n) ==
    IF n = 0 THEN {<<>>}
    ELSE LET S == SeqsUpTo(n - 1)
         IN S \cup {Append(s, b) : s \in {x \in S : Len(x) = n - 1}, b \in FileBytes}

\* The executables that may be installed: non-empty byte strings.
Binaries == SeqsUpTo(MaxLen) \ {<<>>}

\* ------------------------------------------------------- 64-bit hasher
HashMod == 2 ^ 16

\* XxHash::with_seed(seed): nothing absorbed yet.
with_seed(seed) == [seed |-> seed, fed |-> <<>>]

\* Hasher::write(buf): the stream grows by buf, whole and in order.
write(hasher, buf) == [hasher EXCEPT !.fed = @ \o buf]

\* A write_u8 that drops its byte.
write_u8_noop(hasher, b) == hasher

\* Hasher::write_u8(b)
write_u8(hasher, b) == write(hasher, <<b>>)

RECURSIVE Mix(_, _)
Mix(h, s) == IF s = <<>> THEN h ELSE Mix((h * 33 + Head(s) + 1) % HashMod, Tail(s))

\* The eight limbs of the u64 that the mixed state h stands for.
Limbs(h) == [i \in 1..8 |-> ((h + i) * (2 * i + 1) * 13 + (h \div 256) + h \div (2 ^ i)) % 256]

\* Hasher::finish(): the u64 digest of what was absorbed, most significant
\* limb first.  It does not change the hasher.
finish(hasher) ==
    CHOOSE d \in {Limbs(h) : h \in {Mix((hasher.seed + 40503) % HashMod, hasher.fed)}} : TRUE

\* u64::to_ne_bytes / ByteOrder::write_u64 for NativeEndian: the eight bytes
\* of a u64 in the target's memory order.
Reverse(s) == [i \in 1..Len(s) |-> s[Len(s) + 1 - i]]
write_u64(e, n) == IF e = "big" THEN n ELSE Reverse(n)

\* Hasher::write_u64(n), as <TypeId as Hash>::hash uses it.
hash_u64(hasher, e, n) == write(hasher, write_u64(e, n))

\* TypeId::of::<()>, ::<u8>, and of the closures a and b: four distinct u64.
TypeIds ==
    << <<17, 0, 0, 0, 0, 0, 0, 1>>, <<34, 0, 0, 0, 0, 0, 0, 2>>,
       <<51, 0, 0, 0, 0, 0, 0, 3>>, <<68, 0, 0, 0, 0, 0, 0, 4>> >>

\* ------------------------------------------------------ Result<H, ()>
None == <<>>
Ok(h) == [ok |-> TRUE, val |-> h]
Err == [ok |-> FALSE, val |-> None]

\* from_header: no platform lookup is implemented; always Err(()).
from_header(hasher) == Err

\* A from_type_id left a stub, as from_header is.
from_type_id_stub(hasher, e) == Err

\* from_type_id: the four TypeIds are hashed in order; always Ok.
from_type_id(hasher, e) ==
    Ok(hash_u64(hash_u64(hash_u64(hash_u64(hasher, e, TypeIds[1]), e, TypeIds[2]),
                         e, TypeIds[3]), e, TypeIds[4]))

\* ------------------------------------------------------------ the Uuid
ZeroBytes == [i \in 1..16 |-> 0]

\* write_u64(&mut bytes[..8], n) and write_u64(&mut bytes[8..], n).
\* bytes is 1-based here: bytes[k + 1] is the code's bytes[k].
PutLo(buf, e, n) == [i \in 1..16 |-> IF i <= 8 THEN write_u64(e, n)[i] ELSE buf[i]]
PutHi(buf, e, n) == [i \in 1..16 |-> IF i > 8 THEN write_u64(e, n)[i - 8] ELSE buf[i]]

\* with_variant that writes the whole byte: the six digest bits below the
\* variant field are lost.
with_variant_clobber(buf) == [buf EXCEPT ![9] = 128]

\* uuid::Builder::with_variant(Variant::RFC4122): byte 8 = (b & 0x3f) | 0x80
with_variant(buf) == [buf EXCEPT ![9] = (@ % 64) + 128]

\* The version nibble or-ed in without clearing the digest's bits first.
with_version_unmasked(buf) == [buf EXCEPT ![7] = IF (@ \div 64) % 2 = 1 THEN @ ELSE @ + 64]

\* uuid::Builder::with_version(Version::Random): byte 6 = (b & 0x0f) | (4 << 4)
with_version(buf) == [buf EXCEPT ![7] = (@ % 16) + 64]

\* Uuid::get_variant / get_version_num, the fields the Uuid is read by.
get_variant(u) == IF u[9] \div 128 = 0 THEN "NCS"
                  ELSE IF u[9] \div 64 = 2 THEN "RFC4122"
                  ELSE IF u[9] \div 32 = 6 THEN "Microsoft" ELSE "Future"
get_version_num(u) == u[7] \div 16

\* The formatter of calculate(), lines 136..144, on the hasher that
\* from_type_id returned.
Format(hasher, e) ==
    LET lo == PutLo(ZeroBytes, e, finish(hasher))
        h2 == write_u8(hasher, 0)
        hi == PutHi(lo, e, finish(h2))
    IN with_version(with_variant(hi))

\* calculate() as a function of what it meets: the executable's content,
\* the target's byte order, and whether from_exe came back Ok.
calculate(binary, e, exeOk) ==
    LET h0 == with_seed(0)
        primary == IF exeOk THEN write(h0, binary) ELSE h0
    IN Format(from_type_id(primary, e).val, e)

\* -------------------------------------------------------------- state
VARIABLES
    exe,        \* byte content of the running executable
    endian,     \* byte order of the target the binary was built for
    remote,     \* [exe, id]: binary and build id of an ended invocation
    cell,       \* BUILD_ID: [state, value] of the Lazy<Uuid>
    pc,         \* per thread: where it is
    mode,       \* per thread: "init" (calculate run by the Lazy) or "direct"
    hasher,     \* per thread: calculate()'s `hasher`
    exeHasher,  \* per thread: from_exe's own copy of the hasher
    file,       \* per thread: is from_exe's file handle open
    pos,        \* per thread: read position in the executable file
    bytes,      \* per thread: calculate()'s 16-byte buffer
    outcome,    \* per thread: how from_exe ended in the running calculate()
    stages,     \* per thread: the stages the running calculate() has entered
    initRuns,   \* how often the Lazy has started calculate()
    initOutcome,\* how from_exe ended in the Lazy's calculate()
    getVals,    \* the values get() has returned in this process
    wokenVals,  \* those of them returned to callers that had been blocked
    calcVals    \* the values direct calculate() calls have returned

vars == <<exe, endian, remote, cell, pc, mode, hasher, exeHasher, file, pos,
          bytes, outcome, stages, initRuns, initOutcome, getVals, wokenVals,
          calcVals>>

\* What a step of calculate() leaves alone besides its own locals.
shared == <<exe, endian, remote, cell, initRuns, initOutcome, getVals, wokenVals,
            calcVals>>

FreshCell == [state |-> "Incomplete", value |-> None]

\* No invocation has ended yet.
NoRemote == [exe |-> <<>>, id |-> None]

Init ==
    /\ exe \in Binaries
    /\ endian \in {"little", "big"}
    /\ remote = NoRemote
    /\ cell = FreshCell
    /\ pc = [t \in Threads |-> "idle"]
    /\ mode = [t \in Threads |-> "none"]
    /\ hasher = [t \in Threads |-> with_seed(0)]
    /\ exeHasher = [t \in Threads |-> with_seed(0)]
    /\ file = [t \in Threads |-> FALSE]
    /\ pos = [t \in Threads |-> 0]
    /\ bytes = [t \in Threads |-> ZeroBytes]
    /\ outcome = [t \in Threads |-> "none"]
    /\ stages = [t \in Threads |-> <<>>]
    /\ initRuns = 0
    /\ initOutcome = "none"
    /\ getVals = {}
    /\ wokenVals = {}
    /\ calcVals = {}

\* ------------------------------------------------------------ calculate
\* calculate() has returned: its locals are gone.
DropLocals(t) ==
    /\ hasher' = [hasher EXCEPT ![t] = with_seed(0)]
    /\ exeHasher' = [exeHasher EXCEPT ![t] = with_seed(0)]
    /\ pos' = [pos EXCEPT ![t] = 0]
    /\ bytes' = [bytes EXCEPT ![t] = ZeroBytes]
    /\ outcome' = [outcome EXCEPT ![t] = "none"]
    /\ stages' = [stages EXCEPT ![t] = <<>>]

\* Entry of calculate(): let hasher = XxHash::with_seed(0);
StartCalculate(t, m) ==
    /\ pc' = [pc EXCEPT ![t] = "from_header"]
    /\ mode' = [mode EXCEPT ![t] = m]
    /\ hasher' = [hasher EXCEPT ![t] = with_seed(0)]
    /\ UNCHANGED <<exeHasher, file, pos, bytes, outcome, stages>>

\* The test code calls calculate() directly.
CallCalculate(t) ==
    /\ pc[t] = "idle"
    /\ t \in TestThreads
    /\ StartCalculate(t, "direct")
    /\ UNCHANGED shared

\* from_header(hasher).unwrap_or(hasher), the or_else left out: from_exe is
\* never tried.
FromHeaderOnly(t) ==
    /\ pc[t] = "from_header"
    /\ LET r == from_header(hasher[t])
       IN hasher' = [hasher EXCEPT ![t] = IF r.ok THEN r.val ELSE @]
    /\ pc' = [pc EXCEPT ![t] = "from_type_id"]
    /\ stages' = [stages EXCEPT ![t] = Append(@, 1)]
    /\ UNCHANGED <<mode, exeHasher, file, pos, bytes, outcome>>
    /\ UNCHANGED shared

\* from_header(hasher): on Err(()) or_else goes on to from_exe; on Ok
\* from_exe is skipped and unwrap_or takes the value.
FromHeader(t) ==
    /\ pc[t] = "from_header"
    /\ LET r == from_header(hasher[t])
       IN IF r.ok
          THEN /\ hasher' = [hasher EXCEPT ![t] = r.val]
               /\ pc' = [pc EXCEPT ![t] = "from_type_id"]
          ELSE /\ pc' = [pc EXCEPT ![t] = "from_exe"]
               /\ UNCHANGED hasher
    /\ stages' = [stages EXCEPT ![t] = Append(@, 1)]
    /\ UNCHANGED <<mode, exeHasher, file, pos, bytes, outcome>>
    /\ UNCHANGED shared

\* from_exe(hasher), up to the open: the hasher is passed by value (a copy).
\* ok = FALSE: cfg!(miri), wasm32, or palaver::env::exe() failed; then
\* from_exe returns Err(()) and unwrap_or(hasher) takes calculate()'s own.
ExeOpen(t, ok) ==
    /\ pc[t] = "from_exe"
    /\ IF ok
       THEN /\ exeHasher' = [exeHasher EXCEPT ![t] = hasher[t]]
            /\ file' = [file EXCEPT ![t] = TRUE]
            /\ pos' = [pos EXCEPT ![t] = 0]
            /\ pc' = [pc EXCEPT ![t] = "copy"]
            /\ UNCHANGED outcome
       ELSE /\ pc' = [pc EXCEPT ![t] = "from_type_id"]
            /\ outcome' = [outcome EXCEPT ![t] = "open_err"]
            /\ UNCHANGED <<exeHasher, file, pos>>
    /\ stages' = [stages EXCEPT ![t] = Append(@, 2)]
    /\ UNCHANGED <<mode, hasher, bytes>>
    /\ UNCHANGED shared

\* A write that hashes the first byte of buf only and still returns
\* Ok(buf.len()).
HashWriter_write_short(h, buf) ==
    [hasher |-> write(h, SubSeq(buf, 1, 1)), written |-> Len(buf)]

\* HashWriter::write(buf): the whole of buf goes to the hasher, and
\* Ok(buf.len()) is returned.
HashWriter_write(h, buf) == [hasher |-> write(h, buf), written |-> Len(buf)]

\* io::copy, one turn of its loop: read() gave n > 0 bytes, write_all hands
\* them to HashWriter.
ExeRead(t, n) ==
    /\ pc[t] = "copy"
    /\ n >= 1
    /\ pos[t] + n <= Len(exe)
    /\ LET w == HashWriter_write(exeHasher[t], SubSeq(exe, pos[t] + 1, pos[t] + n))
       IN /\ exeHasher' = [exeHasher EXCEPT ![t] = w.hasher]
          /\ pos' = [pos EXCEPT ![t] = @ + w.written]
    /\ UNCHANGED <<pc, mode, hasher, file, bytes, outcome, stages>>
    /\ UNCHANGED shared

\* io::copy: read() gave 0 (end of file); from_exe returns Ok(hasher), its
\* hasher moved out and `file` dropped.  unwrap_or takes the Ok value.
ExeEof(t) ==
    /\ pc[t] = "copy"
    /\ pos[t] = Len(exe)
    /\ hasher' = [hasher EXCEPT ![t] = exeHasher[t]]
    /\ exeHasher' = [exeHasher EXCEPT ![t] = with_seed(0)]
    /\ file' = [file EXCEPT ![t] = FALSE]
    /\ outcome' = [outcome EXCEPT ![t] = "ok"]
    /\ pc' = [pc EXCEPT ![t] = "from_type_id"]
    /\ UNCHANGED <<mode, pos, bytes, stages>>
    /\ UNCHANGED shared

\* A read error that returns without dropping `file`.
ExeReadErrLeak(t) ==
    /\ pc[t] = "copy"
    /\ exeHasher' = [exeHasher EXCEPT ![t] = with_seed(0)]
    /\ outcome' = [outcome EXCEPT ![t] = "read_err"]
    /\ pc' = [pc EXCEPT ![t] = "from_type_id"]
    /\ UNCHANGED <<mode, hasher, file, pos, bytes, stages>>
    /\ UNCHANGED shared

\* A from_exe that hashes into calculate()'s own hasher (&mut, not a copy):
\* after a read error the bytes hashed so far are still in it.
ExeReadErrKeep(t) ==
    /\ pc[t] = "copy"
    /\ hasher' = [hasher EXCEPT ![t] = exeHasher[t]]
    /\ exeHasher' = [exeHasher EXCEPT ![t] = with_seed(0)]
    /\ file' = [file EXCEPT ![t] = FALSE]
    /\ outcome' = [outcome EXCEPT ![t] = "read_err"]
    /\ pc' = [pc EXCEPT ![t] = "from_type_id"]
    /\ UNCHANGED <<mode, pos, bytes, stages>>
    /\ UNCHANGED shared

\* io::copy: read() failed; `?` returns Err(()), from_exe's hasher and
\* `file` are dropped, and unwrap_or(hasher) takes calculate()'s own,
\* untouched hasher.  pos stays, as a record of how far the read had got.
ExeReadErr(t) ==
    /\ pc[t] = "copy"
    /\ exeHasher' = [exeHasher EXCEPT ![t] = with_seed(0)]
    /\ file' = [file EXCEPT ![t] = FALSE]
    /\ outcome' = [outcome EXCEPT ![t] = "read_err"]
    /\ pc' = [pc EXCEPT ![t] = "from_type_id"]
    /\ UNCHANGED <<mode, hasher, pos, bytes, stages>>
    /\ UNCHANGED shared

\* let mut hasher = from_type_id(hasher).unwrap();
\* unwrap() of an Err panics; a panic inside the Lazy's initializer poisons
\* the cell.
FromTypeId(t) ==
    /\ pc[t] = "from_type_id"
    /\ LET r == from_type_id(hasher[t], endian)
       IN IF r.ok
          THEN /\ hasher' = [hasher EXCEPT ![t] = r.val]
               /\ pc' = [pc EXCEPT ![t] = "digest_lo"]
               /\ UNCHANGED cell
          ELSE /\ pc' = [pc EXCEPT ![t] = "panicked"]
               /\ cell' = IF mode[t] = "init"
                          THEN [cell EXCEPT !.state = "Poisoned"] ELSE cell
               /\ UNCHANGED hasher
    /\ stages' = [stages EXCEPT ![t] = Append(@, 3)]
    /\ UNCHANGED <<mode, exeHasher, file, pos, bytes, outcome>>
    /\ UNCHANGED <<exe, endian, remote, initRuns, initOutcome, getVals, wokenVals,
                   calcVals>>

\* let mut bytes = [0; 16]; write_u64(&mut bytes[..8], hasher.finish());
DigestLo(t) ==
    /\ pc[t] = "digest_lo"
    /\ \E d \in {finish(hasher[t])} :
           bytes' = [bytes EXCEPT ![t] = PutLo(ZeroBytes, endian, d)]
    /\ pc' = [pc EXCEPT ![t] = "digest_hi"]
    /\ UNCHANGED <<mode, hasher, exeHasher, file, pos, outcome, stages>>
    /\ UNCHANGED shared

\* hasher.write_u8(0); write_u64(&mut bytes[8..], hasher.finish());
DigestHi(t) ==
    /\ pc[t] = "digest_hi"
    /\ \E h \in {write_u8(hasher[t], 0)} :
           /\ hasher' = [hasher EXCEPT ![t] = h]
           /\ \E d \in {finish(h)} : bytes' = [bytes EXCEPT ![t] = PutHi(@, endian, d)]
    /\ pc' = [pc EXCEPT ![t] = "variant"]
    /\ UNCHANGED <<mode, exeHasher, file, pos, outcome, stages>>
    /\ UNCHANGED shared

\* uuid::Builder::from_bytes(bytes).with_variant(Variant::RFC4122)
WithVariant(t) ==
    /\ pc[t] = "variant"
    /\ bytes' = [bytes EXCEPT ![t] = with_variant(@)]
    /\ pc' = [pc EXCEPT ![t] = "version"]
    /\ UNCHANGED <<mode, hasher, exeHasher, file, pos, outcome, stages>>
    /\ UNCHANGED shared

\* .with_version(Version::Random)
WithVersion(t) ==
    /\ pc[t] = "version"
    /\ bytes' = [bytes EXCEPT ![t] = with_version(@)]
    /\ pc' = [pc EXCEPT ![t] = "into_uuid"]
    /\ UNCHANGED <<mode, hasher, exeHasher, file, pos, outcome, stages>>
    /\ UNCHANGED shared

\* .into_uuid(), returned to a direct caller of calculate().
CalculateReturn(t) ==
    /\ pc[t] = "into_uuid"
    /\ mode[t] = "direct"
    /\ calcVals' = calcVals \cup {bytes[t]}
    /\ pc' = [pc EXCEPT ![t] = "idle"]
    /\ mode' = [mode EXCEPT ![t] = "none"]
    /\ DropLocals(t)
    /\ UNCHANGED <<exe, endian, remote, cell, file, initRuns, initOutcome, getVals,
                   wokenVals>>

\* ------------------------------------------------------------------ get
\* get(): *BUILD_ID, the deref of the Lazy.
CallGet(t) ==
    /\ pc[t] = "idle"
    /\ pc' = [pc EXCEPT ![t] = "get"]
    /\ UNCHANGED <<mode, hasher, exeHasher, file, pos, bytes, outcome, stages>>
    /\ UNCHANGED shared

\* A check-then-act initializer: whoever finds the cell not Complete runs it.
MayInitRacy == cell.state # "Complete"

\* Is this caller the one to run the initializer.
MayInit == cell.state = "Incomplete"

\* A reader that only checks that the initializer has been started.
MayReadEarly == cell.state # "Incomplete"

\* May a caller read the slot.
MayRead == cell.state = "Complete"

\* Lazy::force, cell not yet initialised: this caller takes the cell
\* (Incomplete -> Running in one atomic step) and runs calculate().
LazyInit(t) ==
    /\ pc[t] = "get"
    /\ MayInit
    /\ cell' = [cell EXCEPT !.state = "Running"]
    /\ initRuns' = initRuns + 1
    /\ StartCalculate(t, "init")
    /\ UNCHANGED <<exe, endian, remote, initOutcome, getVals, wokenVals, calcVals>>

\* Lazy::force, another thread is running the initializer: the caller
\* parks until the cell's state changes.
LazyWait(t) ==
    /\ pc[t] = "get"
    /\ cell.state = "Running"
    /\ pc' = [pc EXCEPT ![t] = "blocked"]
    /\ UNCHANGED <<mode, hasher, exeHasher, file, pos, bytes, outcome, stages>>
    /\ UNCHANGED shared

\* The value stored, the cell left marked uninitialised.
PublishIncomplete(v) == [state |-> "Incomplete", value |-> v]

\* The value stored, the state never moved off Running: waiters sleep on.
PublishNoWake(v) == [state |-> "Running", value |-> v]

\* The cell after the initializer's calculate() returned value v.
Publish(v) == [state |-> "Complete", value |-> v]

\* The initializer's calculate() returned: the value is stored, the cell is
\* Complete and waiters are released.  The initializing thread (still in
\* mode "init") is inside get(): it has yet to copy the value out of the
\* cell (LazyRead), and released waiters may do so before it.
LazyStore(t) ==
    /\ pc[t] = "into_uuid"
    /\ mode[t] = "init"
    /\ cell' = Publish(bytes[t])
    /\ initOutcome' = outcome[t]
    /\ pc' = [pc EXCEPT ![t] = "get"]
    /\ UNCHANGED mode
    /\ DropLocals(t)
    /\ UNCHANGED <<exe, endian, remote, file, initRuns, getVals, wokenVals,
                   calcVals>>

\* Lazy::force, cell Complete (found so at once, after having run the
\* initializer, or woken after having been blocked while another thread ran
\* it): the stored value is copied out and get() returns.
LazyRead(t) ==
    /\ pc[t] \in {"get", "blocked"}
    /\ MayRead
    /\ getVals' = getVals \cup {cell.value}
    /\ wokenVals' = IF pc[t] = "blocked" THEN wokenVals \cup {cell.value} ELSE wokenVals
    /\ pc' = [pc EXCEPT ![t] = "idle"]
    /\ mode' = [mode EXCEPT ![t] = "none"]
    /\ UNCHANGED <<exe, endian, remote, cell, hasher, exeHasher, file,
                   pos, bytes, outcome, stages, initRuns, initOutcome, calcVals>>

\* ------------------------------------------------------- process exit
\* The process, having obtained its build id v, ends; binary b is invoked,
\* with fresh statics.  v is kept as the remote build id.
Restart(b, v) ==
    /\ remote = NoRemote
    /\ v \in getVals
    /\ \A t \in Threads : pc[t] = "idle"
    /\ remote' = [exe |-> exe, id |-> v]
    /\ exe' = b
    /\ cell' = FreshCell
    /\ initRuns' = 0
    /\ initOutcome' = "none"
    /\ getVals' = {}
    /\ wokenVals' = {}
    /\ calcVals' = {}
    /\ UNCHANGED <<endian, pc, mode, hasher, exeHasher, file, pos, bytes, outcome, stages>>

\* What a thread does once it is inside a call.
Progress(t) ==
    \/ LazyInit(t)
    \/ LazyWait(t)
    \/ LazyRead(t)
    \/ LazyStore(t)
    \/ FromHeader(t)
    \/ \E ok \in BOOLEAN : ExeOpen(t, ok)
    \/ \E n \in 1..MaxLen : ExeRead(t, n)
    \/ ExeEof(t)
    \/ ExeReadErr(t)
    \/ FromTypeId(t)
    \/ DigestLo(t)
    \/ DigestHi(t)
    \/ WithVariant(t)
    \/ WithVersion(t)
    \/ CalculateReturn(t)

ThreadStep(t) ==
    \/ CallGet(t)
    \/ CallCalculate(t)
    \/ Progress(t)

Next == \E t \in Threads : ThreadStep(t)

Spec == Init /\ [][Next]_vars

\* A program that uses the library: calculate() is private to the crate,
\* so outside the crate's own tests every thread gets the build id by get().
\* What a thread does once it is inside get():
GetProgress(t) ==
    \/ LazyInit(t)
    \/ LazyWait(t)
    \/ LazyRead(t)
    \/ LazyStore(t)
    \/ FromHeader(t)
    \/ \E ok \in BOOLEAN : ExeOpen(t, ok)
    \/ \E n \in 1..MaxLen : ExeRead(t, n)
    \/ ExeEof(t)
    \/ ExeReadErr(t)
    \/ FromTypeId(t)
    \/ DigestLo(t)
    \/ DigestHi(t)
    \/ WithVariant(t)
    \/ WithVersion(t)

LibraryNext == \E t \in Threads : CallGet(t) \/ GetProgress(t)

LibrarySpec == Init /\ [][LibraryNext]_vars

\* Whether a call returns does not depend on the byte values of the file or
\* on the byte order, only on the file's length and on what open and read
\* do: one executable of each length, on a little-endian target.
LiveInit == Init /\ endian = "little" /\ \A i \in 1..Len(exe) : exe[i] = 0

\* Every thread inside get() keeps being scheduled.
FairSpec == LiveInit /\ [][LibraryNext]_vars /\ \A t \in Threads : WF_vars(GetProgress(t))

\* One process after another, each a program that uses the library.
InvocationsNext ==
    \/ LibraryNext
    \/ \E b \in Binaries : \E v \in getVals : Restart(b, v)

InvocationsSpec == Init /\ [][InvocationsNext]_vars

\* One test thread alone (cargo test -- --test-threads=1, or the time one
\* test has the process to itself): calculate() and get() called one after
\* the other.  What calculate() computes is decided by its locals alone, so
\* a thread's steps are the same here as in any interleaving.
OneThreadNext ==
    \E t \in {CHOOSE u \in TestThreads : TRUE} :
        \/ CallGet(t)
        \/ CallCalculate(t)
        \/ LazyInit(t)
        \/ LazyRead(t)
        \/ LazyStore(t)
        \/ FromHeader(t)
        \/ \E ok \in BOOLEAN : ExeOpen(t, ok)
        \/ \E n \in 1..MaxLen : ExeRead(t, n)
        \/ ExeEof(t)
        \/ ExeReadErr(t)
        \/ FromTypeId(t)
        \/ DigestLo(t)
        \/ DigestHi(t)
        \/ WithVariant(t)
        \/ WithVersion(t)
        \/ CalculateReturn(t)

OneThreadSpec == Init /\ [][OneThreadNext]_vars

\* ---------------------------------------------------------------- claims
Returned == getVals \cup calcVals

\* C1: in one process the Lazy runs calculate() exactly once: never a second
\* time, and not zero times once some get() has returned.
C1_CalculatedExactlyOnce == initRuns <= 1 /\ (getVals # {} => initRuns = 1)

\* The initializer has run, a blocked caller has been released with the
\* value, and a later get() is under way.
C1_Witness ==
    /\ initRuns = 1
    /\ cell.state = "Complete"
    /\ wokenVals # {}
    /\ \E t \in Threads : pc[t] = "get"

\* C2: the slot is written once and never changes afterwards, and all get()
\* calls of the process return one and the same value.
C2_WrittenOnceSameValue ==
    /\ [](Cardinality(getVals) <= 1)
    /\ [][(cell.state = "Complete" \/ cell.value # None) => cell' = cell]_vars

\* Several get() calls have returned (the initializer's and a released
\* waiter's), and everyone is back.
C2_Witness ==
    /\ cell.state = "Complete"
    /\ wokenVals # {}
    /\ wokenVals = getVals
    /\ \A t \in Threads : pc[t] = "idle"

\* C3: whatever get() returns is the finished result of the initializer's
\* calculate() (both digests written, variant and version set), returned
\* only once the cell is Complete.
C3_NoPartialValue ==
    \A v \in getVals :
        /\ cell.state = "Complete"
        /\ initOutcome # "none"
        /\ v = calculate(exe, endian, initOutcome = "ok")

\* A caller that was blocked during the computation has returned, and the
\* computation had read the whole executable.
C3_Witness == wokenVals # {} /\ initOutcome = "ok"

\* C4: what get() returns equals what a direct calculate() returns.
C4_GetEqualsCalculate == \A g \in getVals : \A c \in calcVals : g = c

\* C5: all direct runs of calculate() in one process return the same value,
\* whatever from_header and from_exe did in each.
C5_DirectRunsAgree == \A a \in calcVals : \A b \in calcVals : a = b

\* C6: no call panics and no cell is poisoned, whatever stages 1 and 2 did;
\* every call that returns returns a 16-byte identifier.
C6_NoErrorOutcome ==
    /\ \A t \in Threads : pc[t] # "panicked"
    /\ cell.state # "Poisoned"
    /\ \A v \in Returned : v # None /\ Len(v) = 16

\* The Lazy's calculate() is about to return although stage 1 failed and
\* stage 2 hit a read error part-way through the file.
C6_Witness ==
    \E t \in Threads :
        /\ pc[t] = "into_uuid"
        /\ mode[t] = "init"
        /\ outcome[t] = "read_err"
        /\ 0 < pos[t] /\ pos[t] < Len(exe)

\* C7: every get() call eventually returns, and the read of the executable
\* is one forward pass that never goes beyond its end.
C7_EveryGetReturns ==
    /\ \A t \in Threads : (pc[t] = "get") ~> (pc[t] = "idle")
    /\ [](\A t \in Threads : pos[t] <= Len(exe))
    /\ [][\A t \in Threads :
            (pc[t] = "copy" /\ pc'[t] = "copy") => pos'[t] >= pos[t]]_vars

\* A blocked caller has been released and has returned after a calculation
\* whose stage 2 failed.
C7_Witness == wokenVals # {} /\ initOutcome \in {"open_err", "read_err"}

\* C8: every identifier returned has the RFC 4122 variant and version 4.
C8_VariantAndVersion ==
    \A v \in Returned : get_variant(v) = "RFC4122" /\ get_version_num(v) = 4

\* Identifiers from different hashed inputs have been returned.
C8_Witness == Cardinality(Returned) >= 2

\* C9: two invocations of the same binary obtain the same identifier.
C9_SameBinarySameId ==
    \A v \in getVals : (remote # NoRemote /\ remote.exe = exe) => remote.id = v

\* C10: invocations of binaries with different content obtain different
\* identifiers.
C10_DifferentBinaryDifferentId ==
    \A v \in getVals : (remote # NoRemote /\ remote.exe # exe) => remote.id # v

\* Stage k has been entered by the calculate() that thread t is running.
Entered(t, k) == \E i \in DOMAIN stages[t] : stages[t][i] = k

\* The positions of the chain in calculate(): before from_exe has been
\* decided on, and after from_type_id has returned.
AfterPrimary == {"copy", "from_type_id", "digest_lo", "digest_hi", "variant",
                 "version", "into_uuid", "panicked"}
AfterTypeId == {"digest_lo", "digest_hi", "variant", "version", "into_uuid"}

\* C11: the stages of every calculation run in the order 1, 2, 3; stage 2 is
\* attempted if and only if stage 1 failed; stage 3 runs exactly once, after
\* the primary stages, whatever the primary stages gave.
C11_StageOrder ==
    \A t \in Threads :
        /\ stages[t] \in {<<>>, <<1>>, <<1, 2>>, <<1, 3>>, <<1, 2, 3>>}
        /\ pc[t] \in AfterPrimary =>
               (Entered(t, 2) <=> ~from_header(with_seed(0)).ok)
        /\ pc[t] = "from_type_id" => Entered(t, 1) /\ ~Entered(t, 3)
        /\ pc[t] \in AfterTypeId =>
               /\ stages[t][Len(stages[t])] = 3
               /\ Cardinality({i \in DOMAIN stages[t] : stages[t][i] = 3}) = 1
        /\ pc[t] \in {"idle", "get", "blocked"} => stages[t] = <<>>

\* A calculation is complete whose primary input came from neither stage:
\* stage 1 failed, stage 2 failed on the open, stage 3 ran.
C11_Witness ==
    \E t \in Threads :
        /\ pc[t] = "into_uuid"
        /\ stages[t] = <<1, 2, 3>>
        /\ outcome[t] = "open_err"

\* The metadata the doc comment of get() speaks of (.note.gnu.build-id,
\* LC_UUID): part of the image the linker wrote. A binary here carries such
\* a note when its first byte is 255.
HasBuildIdNote(binary) == binary[1] = 255

\* C12: when the binary carries a linker-inserted build id, stage 1 succeeds:
\* stage 2 is not entered and the executable file is neither opened nor read.
C12_HeaderUsedWhenPresent ==
    \A t \in Threads :
        (HasBuildIdNote(exe) /\ Entered(t, 1)) =>
            /\ ~Entered(t, 2)
            /\ pc[t] \notin {"from_exe", "copy"}
            /\ ~file[t]
            /\ pos[t] = 0

\* The hasher calculate() holds once every source has been fed: the primary
\* input, if stage 2 gave one, and then the four TypeIds.
Sources(t) ==
    from_type_id(IF outcome[t] = "ok" THEN write(with_seed(0), exe)
                                      ELSE with_seed(0), endian).val

\* A Uuid and a 16-byte buffer agree outside the variant field (the two high
\* bits of byte 8) and the version field (the high nibble of byte 6).
SameOutsideTags(u, buf) ==
    \A i \in 1..16 :
        IF i = 7 THEN u[i] % 16 = buf[i] % 16
        ELSE IF i = 9 THEN u[i] % 64 = buf[i] % 64
        ELSE u[i] = buf[i]

\* C13: the buffer is filled from one hasher in two steps: bytes 0..8 are the
\* digest of the hasher after all sources, bytes 8..16 the digest of that same
\* hasher after exactly one more byte, 0, was written to it; outside the
\* variant and version fields the identifier is this buffer.
C13_TwoDigestsOneHasher ==
    \A t \in Threads :
        /\ pc[t] = "digest_lo" => hasher[t] = Sources(t)
        /\ pc[t] = "digest_hi" =>
               \E s \in {Sources(t)} :
                   /\ hasher[t] = s
                   /\ \E lo \in {finish(s)} :
                          bytes[t] = PutLo(ZeroBytes, endian, lo)
        /\ pc[t] \in {"variant", "version", "into_uuid"} =>
               \E s \in {Sources(t)} :
                   /\ hasher[t] = write(s, <<0>>)
                   /\ \E lo \in {finish(s)}, hi \in {finish(write(s, <<0>>))} :
                          SameOutsideTags(bytes[t],
                              PutHi(PutLo(ZeroBytes, endian, lo), endian, hi))

\* An identifier is ready whose two halves come from the whole executable
\* and differ from one another.
C13_Witness ==
    \E t \in Threads :
        /\ pc[t] = "into_uuid"
        /\ outcome[t] = "ok"
        /\ \E i \in {1, 2, 3, 4, 5, 6, 8} : bytes[t][i] # bytes[t][i + 8]

\* Bit k (0 the least significant) of a byte, and the positions <<byte, bit>>
\* of a 16-byte value; bytes are 1-based as everywhere here.
Bit(b, k) == (b \div (2 ^ k)) % 2
AllBits == (1..16) \X (0..7)

\* The bits Builder::with_variant(RFC4122) and with_version(Random) set:
\* the two high bits of byte 8 and the high nibble of byte 6.
TagBits == {<<9, k>> : k \in 6..7} \cup {<<7, k>> : k \in 4..7}

\* The buffer of lines 136..139, before the Builder touches it.
RawBuffer(t) ==
    CHOOSE b \in {PutHi(PutLo(ZeroBytes, endian, lo), endian, hi) :
                     lo \in {finish(Sources(t))},
                     hi \in {finish(write(Sources(t), <<0>>))}} : TRUE

\* The positions where a Uuid and a buffer differ.
DiffBits(u, buf) == {p \in AllBits : Bit(u[p[1]], p[2]) # Bit(buf[p[1]], p[2])}

\* C14 as stated: the formatter overwrites exactly 2 bits, so the identifier
\* differs from the two-digest buffer in at most 2 bit positions and 126 bits
\* are as the digests produced them.
C14_TwoBitsOverwritten ==
    \A t \in Threads :
        pc[t] = "into_uuid" =>
            \E raw \in {RawBuffer(t)} :
                /\ Cardinality(DiffBits(bytes[t], raw)) <= 2
                /\ Cardinality(AllBits \ DiffBits(bytes[t], raw)) >= 126

\* C14, amended: the formatter fixes 6 bits, the 2 variant bits (10) and the
\* 4 version bits (0100); the other 122 bits are as the digests produced them.
C14_SixBitsOverwritten ==
    /\ Cardinality(TagBits) = 6
    /\ Cardinality(AllBits \ TagBits) = 122
    /\ \A t \in Threads :
           pc[t] = "into_uuid" =>
               \E raw \in {RawBuffer(t)} :
                   /\ DiffBits(bytes[t], raw) \subseteq TagBits
                   /\ <<Bit(bytes[t][9], 7), Bit(bytes[t][9], 6)>> = <<1, 0>>
                   /\ <<Bit(bytes[t][7], 7), Bit(bytes[t][7], 6),
                        Bit(bytes[t][7], 5), Bit(bytes[t][7], 4)>> = <<0, 1, 0, 0>>

\* An identifier is ready in which the Builder changed more than 2 bits of
\* the buffer, in the variant field and in the version field.
C14_Witness ==
    \E t \in Threads :
        /\ pc[t] = "into_uuid"
        /\ \E raw \in {RawBuffer(t)} :
               /\ Cardinality(DiffBits(bytes[t], raw)) > 2
               /\ \E k \in 6..7 : <<9, k>> \in DiffBits(bytes[t], raw)
               /\ \E k \in 4..7 : <<7, k>> \in DiffBits(bytes[t], raw)

\* C15: a handle to the executable is open only inside stage 2, while io::copy
\* runs: none is open before stage 2, once stage 2 has returned (Ok, failed
\* open, or read error part-way), in stage 3, in the formatter, or in a thread
\* that is in get() or back from it.
C15_FileScopedToFromExe ==
    \A t \in Threads :
        /\ file[t] => (pc[t] = "copy" /\ Entered(t, 2) /\ ~Entered(t, 3))
        /\ pc[t] = "copy" => file[t]

\* Stage 2 has returned after a read error part-way through the file, and
\* stage 3 is next.
C15_Witness ==
    \E t \in Threads :
        /\ pc[t] = "from_type_id"
        /\ outcome[t] = "read_err"
        /\ 0 < pos[t]
        /\ pos[t] < Len(exe)
        /\ ~file[t]

\* C16: when stage 2 succeeds, the hasher it returns has absorbed the whole
\* executable, each byte once and in file order; during the copy the hasher
\* holds exactly the bytes read so far, every buffer taken whole.
C16_WholeFileInOrder ==
    \A t \in Threads :
        /\ pc[t] = "copy" =>
               /\ pos[t] <= Len(exe)
               /\ exeHasher[t] = write(with_seed(0), SubSeq(exe, 1, pos[t]))
        /\ (outcome[t] = "ok" /\ pc[t] = "from_type_id") =>
               /\ pos[t] = Len(exe)
               /\ hasher[t].seed = 0
               /\ hasher[t].fed = exe

\* Stage 2 has succeeded on an executable of several distinct bytes.
C16_Witness ==
    \E t \in Threads :
        /\ pc[t] = "from_type_id"
        /\ outcome[t] = "ok"
        /\ Len(exe) >= 2
        /\ exe[1] # exe[2]
        /\ hasher[t].fed = exe

\* C17: a failed stage 2 leaves nothing in the hasher: stage 3 starts from the
\* seed-0 hasher, and the identifier is the one of a stage 2 that failed
\* before reading anything, however far the read had got.
C17_FailedStageNoTrace ==
    \A t \in Threads :
        outcome[t] \in {"open_err", "read_err"} =>
            /\ pc[t] = "from_type_id" => hasher[t] = with_seed(0)
            /\ pc[t] = "digest_lo" => hasher[t] = from_type_id(with_seed(0), endian).val
            /\ pc[t] = "into_uuid" =>
                   \E id \in {calculate(<<>>, endian, FALSE)} : bytes[t] = id

\* A direct calculate() has its identifier ready after a read error that
\* came when part of the executable was already hashed.
C17_Witness ==
    \E t \in Threads :
        /\ mode[t] = "direct"
        /\ pc[t] = "into_uuid"
        /\ outcome[t] = "read_err"
        /\ pos[t] > 0

====
